---------------------------- MODULE Spec2Model ----------------------------
(***************************************************************************)
(* Dynamic Mode Decomposition with control (pydmd/dmdc.py).                *)
(*                                                                         *)
(* A matrix is a non-empty sequence of rows, each row a non-empty sequence *)
(* of integers (numpy's M[i][j]); a vector is a sequence of integers.      *)
(* None is the empty sequence.  The model follows one DMDc object through  *)
(* calls of fit, reconstructed_data and the accessors B and basis.         *)
(*                                                                         *)
(* Matrix products, the broadcasting subtraction and addition, vstack and  *)
(* the slicing are computed as numpy computes them, shapes and values.     *)
(* The factorisations of the modules that dmdc.py imports (the truncated   *)
(* SVD, the eigen-solver, the amplitude fit) are stood in for by functions *)
(* that return results of the shapes those routines return.                *)
(***************************************************************************)
EXTENDS Integers, Sequences, FiniteSets, TLC

\* ------------------------------------------------------------------ bounds
MaxStates == 2
MaxSamples == 3

None == <<>>

\* ------------------------------------------------------- numpy primitives
Min(a, b) == IF a <= b THEN a ELSE b
Max(a, b) == IF a >= b THEN a ELSE b

NRows(M) == Len(M)
NCols(M) == Len(M[1])

\* the vector (F(1), ..., F(n)) and the r x c matrix of the F(i, j), as
\* sequences
Vec(n, F(_)) == <<>> \o [i \in 1..n |-> F(i)]
Mat(r, c, F(_, _)) == Vec(r, LAMBDA i : Vec(c, LAMBDA j : F(i, j)))

\* The operators below bind their matrix arguments once ({e(m) : m \in {M}}
\* is the set of the one value e(M)) before they index them.
The(S) == CHOOSE x \in S : TRUE

\* M.T (all entries are real, so .conj() changes nothing)
Transpose(M) ==
    The({ Mat(NCols(m), NRows(m), LAMBDA j, i : m[i][j]) : m \in {M} })

\* M[:, a-1:b]  (columns a..b, 1-based, inclusive)
ColSlice(M, a, b) ==
    The({ Mat(NRows(m), b - a + 1, LAMBDA i, j : m[i][a + j - 1]) : m \in {M} })

\* M[a-1:b, :]  (rows a..b, 1-based, inclusive)
RowSlice(M, a, b) == SubSeq(M, a, b)

\* M[:, j-1]
Column(M, j) == The({ Vec(NRows(m), LAMBDA i : m[i][j]) : m \in {M} })

\* f[1] + ... + f[n]
RECURSIVE SumTo(_, _)
SumTo(f, n) == IF n = 0 THEN 0 ELSE f[n] + SumTo(f, n - 1)

\* A.dot(B) for two matrices: defined when the inner dimensions agree
DotOK(A, B) == NCols(A) = NRows(B)
Dot(A, B) ==
    The({ Mat(NRows(a), NCols(b),
              LAMBDA i, j : SumTo(Vec(NCols(a), LAMBDA k : a[i][k] * b[k][j]),
                                  NCols(a))) :
          a \in {A}, b \in {B} })

\* A.dot(v) for a matrix and a vector
DotVecOK(A, v) == NCols(A) = Len(v)
DotVec(A, v) ==
    The({ Vec(NRows(a), LAMBDA i : SumTo(Vec(NCols(a), LAMBDA k : a[i][k] * w[k]),
                               NCols(a))) :
          a \in {A}, w \in {v} })

\* numpy broadcasting of one dimension: equal, or one of the two is 1
BroadcastOK(a, b) == a = b \/ a = 1 \/ b = 1
BIdx(n, i) == IF n = 1 THEN 1 ELSE i

\* A - B with broadcasting
SubOK(A, B) == BroadcastOK(NRows(A), NRows(B)) /\ BroadcastOK(NCols(A), NCols(B))
Sub(A, B) ==
    The({ Mat(Max(NRows(a), NRows(b)), Max(NCols(a), NCols(b)),
              LAMBDA i, j : a[BIdx(NRows(a), i)][BIdx(NCols(a), j)]
                              - b[BIdx(NRows(b), i)][BIdx(NCols(b), j)]) :
          a \in {A}, b \in {B} })

\* v + w for two vectors, with broadcasting
VecAddOK(v, w) == BroadcastOK(Len(v), Len(w))
VecAdd(v, w) ==
    The({ Vec(Max(Len(x), Len(y)),
              LAMBDA i : x[BIdx(Len(x), i)] + y[BIdx(Len(y), i)]) :
          x \in {v}, y \in {w} })

\* np.vstack([A, B]): the column counts must agree
VStackOK(A, B) == NCols(A) = NCols(B)
VStack(A, B) == A \o B

\* np.diag(v)
Diag(v) ==
    The({ Mat(Len(x), Len(x), LAMBDA i, j : IF i = j THEN x[i] ELSE 0) : x \in {v} })

\* np.reciprocal(s): exact on the singular values the model produces (all 1)
Reciprocal(s) == The({ Vec(Len(x), LAMBDA i : 1 \div x[i]) : x \in {s} })

RECURSIVE IntPow(_, _)
IntPow(x, e) == IF e = 0 THEN 1 ELSE x * IntPow(x, e - 1)

\* np.power(v, e), elementwise
Power(v, e) == The({ Vec(Len(x), LAMBDA i : IntPow(x[i], e)) : x \in {v} })

\* past.utils.old_div on two integers: floor division
old_div(a, b) == a \div b

\* np.linalg.pinv(M): the Moore-Penrose inverse of a matrix whose columns are
\* orthonormal or zero is its conjugate transpose.  Every modes matrix of the
\* model is of that kind (PinvExact below).
Pinv(M) == Transpose(M)

\* np.array(data).T for a list of equally long vectors: one column per vector
StackColumns(data) == Transpose(data)

Eye(n, r) == Mat(n, r, LAMBDA i, j : IF i = j THEN 1 ELSE 0)

\* ------------------------------------------------ imported collaborators
\* DMDOperator._compute_svd(M, svd_rank): U (rows x r), s (r), V (cols x r),
\* r the truncation rank.  svd_rank = -1 keeps every singular value, a positive
\* integer keeps at most that many.
SvdRank(M, svd_rank) ==
    IF svd_rank >= 1 THEN Min(svd_rank, Min(NRows(M), NCols(M)))
    ELSE Min(NRows(M), NCols(M))

compute_svd(M, svd_rank) ==
    LET r == SvdRank(M, svd_rank)
    IN  [U |-> Eye(NRows(M), r), s |-> Vec(r, LAMBDA i : 1), V |-> Eye(NCols(M), r)]

\* DMDOperator._compute_eigenquantities(): eigenvalues and eigenvectors of the
\* reduced operator (exact when the reduced operator is diagonal)
compute_eigenquantities(atilde) ==
    [eigenvalues |-> Vec(NRows(atilde), LAMBDA i : atilde[i][i]),
     eigenvectors |-> Eye(NRows(atilde), NRows(atilde))]

\* A freshly constructed operator object: DMDControlOperator.__init__
DMDControlOperator(kind, kwargs) ==
    [kind |-> kind, svd_rank |-> kwargs.svd_rank,
     svd_rank_omega |-> kwargs.svd_rank_omega,
     Atilde |-> None, eigenvalues |-> None, eigenvectors |-> None,
     modes |-> None, Lambda |-> None]

\* the operator object holds eigenvalues and modes (DMDOperator.eigenvalues
\* and DMDOperator.modes raise ValueError on an operator that does not)
OperatorFitted(op) == op.eigenvalues # None /\ op.modes # None

\* Below, {e(x) : x \in {v}} names the value v as x in e, and The takes the
\* one element of such a set.

\* DMDOperator.compute_operator(X, Y): the plain (no-control) construction.
\* Returns [ok, op, U]; the operator is written only when every product is
\* defined.
DMDOperator_compute_operator(op, X, Y) ==
    The({ IF ~(DotOK(Transpose(svd.U), Y) /\ NCols(Y) = NRows(svd.V))
          THEN [ok |-> FALSE, op |-> op, U |-> None]
          ELSE The({ The({ [ok |-> TRUE,
                            op |-> [op EXCEPT !.Atilde = atilde,
                                              !.eigenvalues = eig.eigenvalues,
                                              !.eigenvectors = eig.eigenvectors,
                                              !.modes = Dot(svd.U, eig.eigenvectors),
                                              !.Lambda = eig.eigenvalues],
                            U |-> svd.U] :
                           eig \in {compute_eigenquantities(atilde)} }) :
                     atilde \in {Dot(Dot(Dot(Transpose(svd.U), Y), svd.V),
                                     Diag(Reciprocal(svd.s)))} }) :
          svd \in {compute_svd(X, op.svd_rank)} })

\* ----------------------------------------------------- the two builders
\* DMDBKnownOperator.compute_operator(X, Y, B, controlin)
DMDBKnownOperator_compute_operator(op, X, Y, B, controlin) ==
    IF ~DotOK(B, controlin) THEN [ok |-> FALSE, op |-> op, basis |-> None, B |-> None]
    ELSE The({ IF ~SubOK(Y, BU)
               THEN [ok |-> FALSE, op |-> op, basis |-> None, B |-> None]
               ELSE The({ [ok |-> r.ok, op |-> r.op, basis |-> r.U, B |-> None] :
                          r \in {DMDOperator_compute_operator(op, X, Sub(Y, BU))} }) :
               BU \in {Dot(B, controlin)} })

\* DMDBUnknownOperator._compute_modes_and_Lambda(Y, sp, Vp, Up1, Ur)
compute_modes_and_Lambda(op, Y, sp, Vp, Up1, Ur) ==
    [op EXCEPT !.modes = Dot(Dot(Dot(Dot(Dot(Y, Vp), Diag(Reciprocal(sp))),
                                     Transpose(Up1)), Ur), op.eigenvectors),
               !.Lambda = op.eigenvalues]

\* lines 34-42 of DMDBUnknownOperator.compute_operator, on the factors of the
\* two decompositions
unknown_operator(op, Y, sp, Vp, Up1, Up2, Ur) ==
    The({ The({ The({ [ok |-> TRUE,
                       op |-> compute_modes_and_Lambda(
                                  [op EXCEPT !.Atilde = atilde,
                                             !.eigenvalues = eig.eigenvalues,
                                             !.eigenvectors = eig.eigenvectors],
                                  Y, sp, Vp, Up1, Ur),
                       basis |-> Ur,
                       B |-> Dot(Ur, Dot(YVS, Transpose(Up2)))] :
                      eig \in {compute_eigenquantities(atilde)} }) :
                atilde \in {Dot(Dot(YVS, Transpose(Up1)), Ur)} }) :
          YVS \in {Dot(Dot(Dot(Transpose(Ur), Y), Vp), Diag(Reciprocal(sp)))} })

\* DMDBUnknownOperator.compute_operator(X, Y, controlin, snapshots_rows)
DMDBUnknownOperator_compute_operator(op, X, Y, controlin, snapshots_rows) ==
    IF ~VStackOK(X, controlin) THEN [ok |-> FALSE, op |-> op, basis |-> None, B |-> None]
    ELSE The({ unknown_operator(op, Y, svdp.s, svdp.V,
                                RowSlice(svdp.U, 1, snapshots_rows),
                                RowSlice(svdp.U, snapshots_rows + 1, NRows(svdp.U)),
                                Ur) :
               svdp \in {compute_svd(VStack(X, controlin), op.svd_rank_omega)},
               Ur \in {compute_svd(Y, op.svd_rank).U} })

\* --------------------------------------------------------- the DMDc object
\* An argument that is an object, or a field that holds one, is <<object>>;
\* None is <<>>.
Some(x) == <<x>>
Get(o) == o[1]

VARIABLES
    _dmd_operator_kwargs,   \* the constructor's operator arguments
    _snapshots,             \* matrix, or None
    _snapshots_shape,       \* shape of one snapshot of a list input, or None
    _controlin,             \* matrix, or None
    _controlin_shape,
    original_time,          \* Some([t0, tend, dt]), or None
    dmd_time,
    _Atilde,                \* Some(operator object), or None
    _basis,                 \* matrix, or None
    _B,                     \* matrix, or None
    _b,                     \* amplitudes: vector, or None
    calls,                  \* the builder invocations of the latest fit
    ret                     \* the latest call: its arguments and its outcome

fields == <<_snapshots, _snapshots_shape, _controlin, _controlin_shape,
            original_time, dmd_time, _Atilde, _basis, _B, _b>>
vars == <<_dmd_operator_kwargs, _snapshots, _snapshots_shape, _controlin,
          _controlin_shape, original_time, dmd_time, _Atilde, _basis, _B, _b,
          calls, ret>>

\* the object as one record
Self ==
    [_dmd_operator_kwargs |-> _dmd_operator_kwargs,
     _snapshots |-> _snapshots, _snapshots_shape |-> _snapshots_shape,
     _controlin |-> _controlin, _controlin_shape |-> _controlin_shape,
     original_time |-> original_time, dmd_time |-> dmd_time,
     _Atilde |-> _Atilde, _basis |-> _basis, _B |-> _B, _b |-> _b]

\* DMDBase._col_major_2darray(X): a 2-D ndarray is kept as it is, with shape
\* None; a list of snapshots becomes the matrix with one column per snapshot,
\* with the shape of one snapshot.
col_major_2darray(X) ==
    IF X.ndarray THEN [arr |-> X.data, shape |-> None]
    ELSE [arr |-> Transpose(X.data), shape |-> <<Len(X.data[1])>>]

\* DMDBase._compute_amplitudes(): least-squares fit of the first snapshot by
\* the modes.  [ok, b]
compute_amplitudes(modes, snapshots) ==
    IF NRows(modes) # NRows(snapshots) THEN [ok |-> FALSE, b |-> None]
    ELSE [ok |-> TRUE, b |-> DotVec(Pinv(modes), Column(snapshots, 1))]

NoCall == [builder |-> "none", X |-> None, Y |-> None, B |-> None,
           controlin |-> None, snapshots_rows |-> 0,
           basis |-> None, B_full |-> None, raised |-> FALSE]

\* the invocation of a builder, as fit issues it, and what it returned
builder_call(B, X, Y, controlin, snapshots_rows, r) ==
    IF B = None
    THEN [NoCall EXCEPT !.builder = "BUnknown", !.X = X, !.Y = Y,
                        !.controlin = controlin,
                        !.snapshots_rows = snapshots_rows,
                        !.basis = r.basis, !.B_full = r.B, !.raised = ~r.ok]
    ELSE [NoCall EXCEPT !.builder = "BKnown", !.X = X, !.Y = Y,
                        !.B = B, !.controlin = controlin,
                        !.basis = r.basis, !.raised = ~r.ok]

\* The builder call of DMDc.fit, lines 165-177, on the parsed inputs: the
\* operator object constructed for the path that B selects, and its
\* compute_operator.  [r, call]: the builder's outcome and the invocation.
build(kwargs, snapshots, controlin, B) ==
    The({ The({ [r |-> r,
                 call |-> builder_call(B, X, Y, controlin, NRows(snapshots), r)] :
                r \in { IF B = None
                        THEN DMDBUnknownOperator_compute_operator(
                                 DMDControlOperator("BUnknown", kwargs),
                                 X, Y, controlin, NRows(snapshots))
                        ELSE DMDBKnownOperator_compute_operator(
                                 DMDControlOperator("BKnown", kwargs),
                                 X, Y, B, controlin) } }) :
          X \in {ColSlice(snapshots, 1, NCols(snapshots) - 1)},
          Y \in {ColSlice(snapshots, 2, NCols(snapshots))} })

\* ------------------------------------------------------------------ inputs
\* Snapshot matrices: n states (1 or MaxStates), m samples (2..MaxSamples); the
\* first column holds v in every state, column j + 1 is the unit vector of
\* state ((j - 1) mod n) + 1.
SnapMatrix(n, m, v) ==
    Mat(n, m, LAMBDA i, j : IF j = 1 THEN v
                            ELSE IF ((j - 2) % n) + 1 = i THEN 1 ELSE 0)

\* Control sequences: one control, k columns (1..MaxSamples - 1), the same
\* value (0 or 1) in every entry.  B: one column, 1 or MaxStates rows, every
\* entry 3.
ConstMatrix(r, c, v) == Mat(r, c, LAMBDA i, j : v)

AsArray(M) == [ndarray |-> TRUE, data |-> M]
\* the same data given as a list of snapshots (one vector per column)
AsList(M) == [ndarray |-> FALSE, data |-> Transpose(M)]

SnapshotInputs ==
    { AsArray(SnapMatrix(n, m, 2)) : n \in {1, MaxStates}, m \in 2..MaxSamples }

ControlInputs ==
    { AsArray(ConstMatrix(1, k, v)) : k \in 1..(MaxSamples - 1), v \in {0, 1} }

\* alternate control sequences for reconstructed_data: the above, a list of
\* snapshots, and sequences of two controls
AlternateInputs ==
    ControlInputs
      \cup { AsList(ConstMatrix(1, k, 1)) : k \in 1..(MaxSamples - 1) }
      \cup { AsArray(ConstMatrix(2, k, 1)) : k \in 1..(MaxSamples - 1) }

BInputs ==
    {None} \cup { ConstMatrix(n, 1, 3) : n \in {1, MaxStates} }

KwargsInputs ==
    [svd_rank : {-1, 1}, svd_rank_omega : {-1}]

\* build on every input the model draws, computed once (f @@ g is TLC's
\* function merge; merging with the empty function leaves the table as it is)
Built ==
    [a \in KwargsInputs \X { X.data : X \in SnapshotInputs }
             \X { I.data : I \in ControlInputs } \X BInputs |->
        build(a[1], a[2], a[3], a[4])] @@ <<>>

\* time_descriptor with tend one too large (n_samples for n_samples - 1)
time_descriptor_off_by_one(n_samples) == [t0 |-> 0, tend |-> n_samples, dt |-> 1]

\* lines 169-170: the value of both time descriptors
time_descriptor(n_samples) == [t0 |-> 0, tend |-> n_samples - 1, dt |-> 1]

\* fit_begin that also resets the results of an earlier fit
fit_begin_clearing(self, X, I) ==
    LET snap == col_major_2darray(X)
        ctl == col_major_2darray(I)
        n_samples == NCols(snap.arr)
    IN  [self EXCEPT !._snapshots = snap.arr,
                     !._snapshots_shape = snap.shape,
                     !._controlin = ctl.arr,
                     !._controlin_shape = ctl.shape,
                     !.original_time = Some([t0 |-> 0, tend |-> n_samples - 1, dt |-> 1]),
                     !.dmd_time = Some([t0 |-> 0, tend |-> n_samples - 1, dt |-> 1]),
                     !._basis = None, !._B = None, !._b = None]

\* lines 162-170 of DMDc.fit: what fit assigns before it calls a builder
fit_begin(self, X, I) ==
    LET snap == col_major_2darray(X)
        ctl == col_major_2darray(I)
        n_samples == NCols(snap.arr)
    IN  [self EXCEPT !._snapshots = snap.arr,
                     !._snapshots_shape = snap.shape,
                     !._controlin = ctl.arr,
                     !._controlin_shape = ctl.shape,
                     !.original_time = Some(time_descriptor(n_samples)),
                     !.dmd_time = Some(time_descriptor(n_samples))]

\* stored_B that takes the builder's B on both paths
stored_B_from_builder(B, r) == r.B

\* lines 174 and 180: the B that fit stores, r the builder's outcome
stored_B(B, r) == IF B = None THEN r.B ELSE B


\* lines 172-184 of DMDc.fit, s1 the object as lines 162-170 leave it and bt
\* the builder call
fit_end(s1, B, bt) ==
    IF ~bt.r.ok
    THEN [self |-> [s1 EXCEPT !._Atilde = Some(bt.r.op)],
          calls |-> <<bt.call>>, status |-> "ValueError"]
    ELSE The({ [self |-> [s1 EXCEPT !._Atilde = Some(bt.r.op),
                                    !._basis = bt.r.basis,
                                    !._B = stored_B(B, bt.r),
                                    !._b = IF amp.ok THEN amp.b ELSE s1._b],
                calls |-> <<bt.call>>,
                status |-> IF amp.ok THEN "ok" ELSE "LinAlgError"] :
               amp \in {compute_amplitudes(bt.r.op.modes, s1._snapshots)} })

\* DMDc.fit(X, I, B), lines 162-184.  [self, calls, status]: the object after
\* the call, the builder invocations in order, and "ok" or the exception.
fit_body(self, X, I, B) ==
    The({ The({ fit_end(s1, B, bt) :
                bt \in {Built[<<self._dmd_operator_kwargs, s1._snapshots,
                                s1._controlin, B>>]} }) :
          s1 \in {fit_begin(self, X, I)} })

\* DMDBase.dynamics.shape[1]: one column per entry of dmd_timesteps, which is
\* arange(t0, tend + dt, dt)
DynamicsCols(self) ==
    LET t == Get(self.dmd_time)
    IN  (t.tend + t.dt - t.t0) \div t.dt

\* Propagate that applies A to the initial condition in every step
RECURSIVE Propagate_from_initial(_, _, _, _, _)
Propagate_from_initial(A, B, controlin, data, i) ==
    IF i > NCols(controlin)
    THEN [status |-> "ok", data |-> data, steps |-> i - 1]
    ELSE LET u == Column(controlin, i)
         IN  IF ~(DotVecOK(A, data[1]) /\ DotVecOK(B, u))
             THEN [status |-> "ValueError", data |-> data, steps |-> i - 1]
             ELSE IF ~VecAddOK(DotVec(A, data[1]), DotVec(B, u))
                  THEN [status |-> "ValueError", data |-> data, steps |-> i - 1]
                  ELSE Propagate_from_initial(A, B, controlin,
                           Append(data, VecAdd(DotVec(A, data[1]), DotVec(B, u))),
                           i + 1)

\* the loop of lines 141-142 from position i on: data holds i vectors.
\* [status, data, steps], steps the number of propagation steps completed.
RECURSIVE Propagate(_, _, _, _, _)
Propagate(A, B, controlin, data, i) ==
    IF i > NCols(controlin)
    THEN [status |-> "ok", data |-> data, steps |-> i - 1]
    ELSE LET u == Column(controlin, i)
         IN  IF ~(DotVecOK(A, data[i]) /\ DotVecOK(B, u))
             THEN [status |-> "ValueError", data |-> data, steps |-> i - 1]
             ELSE IF ~VecAddOK(DotVec(A, data[i]), DotVec(B, u))
                  THEN [status |-> "ValueError", data |-> data, steps |-> i - 1]
                  ELSE Propagate(A, B, controlin,
                           Append(data, VecAdd(DotVec(A, data[i]), DotVec(B, u))),
                           i + 1)

Raised(exc) ==
    [status |-> exc, value |-> None, steps |-> 0, controlin |-> None,
     eigs |-> None, exponent |-> 0, A |-> None]

\* lines 135-145 of DMDc.reconstructed_data: the transition operator, the
\* propagation and the stacking, for the control sequence controlin
propagate_all(self, controlin) ==
    LET op == Get(self._Atilde)
        exponent == old_div(Get(self.dmd_time).dt, Get(self.original_time).dt)
        eigs == Power(op.eigenvalues, exponent)
        A == Dot(Dot(op.modes, Diag(eigs)), Pinv(op.modes))
        run == Propagate(A, self._B, controlin, <<Column(self._snapshots, 1)>>, 1)
    IN  [status |-> run.status,
         value |-> IF run.status = "ok" THEN StackColumns(run.data) ELSE None,
         steps |-> run.steps, controlin |-> controlin,
         eigs |-> eigs, exponent |-> exponent, A |-> A]

\* reconstructed_data_body that checks the size after the propagation
reconstructed_data_body_late_check(self, control_input) ==
    IF control_input = None /\ self._controlin = None
    THEN Raised("AttributeError")
    ELSE
    LET controlin == IF control_input = None THEN self._controlin
                     ELSE col_major_2darray(Get(control_input)).arr
    IN  IF self._Atilde = None THEN Raised("AttributeError")
        ELSE IF ~OperatorFitted(Get(self._Atilde)) THEN Raised("ValueError")
        ELSE LET p == propagate_all(self, controlin)
             IN  IF p.status = "ok" /\ NCols(controlin) # DynamicsCols(self) - 1
                 THEN [Raised("RuntimeError") EXCEPT !.steps = p.steps]
                 ELSE p

\* DMDc.reconstructed_data(control_input), lines 125-145: the outcome of the
\* call.  It assigns no attribute of the object.
reconstructed_data_body(self, control_input) ==
    IF control_input = None /\ self._controlin = None
    THEN Raised("AttributeError")
    ELSE
    LET controlin == IF control_input = None THEN self._controlin
                     ELSE col_major_2darray(Get(control_input)).arr
    IN  IF self._Atilde = None THEN Raised("AttributeError")
        ELSE IF ~OperatorFitted(Get(self._Atilde)) THEN Raised("ValueError")
        ELSE IF NCols(controlin) # DynamicsCols(self) - 1
        THEN Raised("RuntimeError")
        ELSE propagate_all(self, controlin)

\* ------------------------------------------------------------- operations
NoRet ==
    [op |-> "__init__", control_input |-> None, status |-> "ok", value |-> None, steps |-> 0,
     controlin |-> None, eigs |-> None, exponent |-> 0, A |-> None]

\* DMDc.__init__, lines 78-91 (and DMDBase.__init__ for the time descriptors)
Init ==
    /\ _dmd_operator_kwargs \in KwargsInputs
    /\ _snapshots = None
    /\ _snapshots_shape = None
    /\ _controlin = None
    /\ _controlin_shape = None
    /\ original_time = None
    /\ dmd_time = None
    /\ _Atilde = None
    /\ _basis = None
    /\ _B = None
    /\ _b = None
    /\ calls = <<>>
    /\ ret = NoRet

Store(self) ==
    /\ _snapshots' = self._snapshots
    /\ _snapshots_shape' = self._snapshots_shape
    /\ _controlin' = self._controlin
    /\ _controlin_shape' = self._controlin_shape
    /\ original_time' = self.original_time
    /\ dmd_time' = self.dmd_time
    /\ _Atilde' = self._Atilde
    /\ _basis' = self._basis
    /\ _B' = self._B
    /\ _b' = self._b

\* fit(X, I, B)
fit(X, I, B) ==
    \E r \in {fit_body(Self, X, I, B)} :
        /\ Store(r.self)
        /\ calls' = r.calls
        /\ ret' = [NoRet EXCEPT !.op = "fit", !.status = r.status]
        /\ UNCHANGED _dmd_operator_kwargs

RetOfReconstruct(control_input, r) ==
    [NoRet EXCEPT !.op = "reconstructed_data",
                  !.control_input = control_input,
                  !.status = r.status, !.value = r.value,
                  !.steps = r.steps, !.controlin = r.controlin,
                  !.eigs = r.eigs, !.exponent = r.exponent, !.A = r.A]

\* reconstructed_data that keeps the control sequence it was given
reconstructed_data_storing(control_input) ==
    \E r \in {reconstructed_data_body(Self, control_input)} :
        /\ ret' = RetOfReconstruct(control_input, r)
        /\ Store(IF control_input = None THEN Self
                 ELSE [Self EXCEPT !._controlin =
                           col_major_2darray(Get(control_input)).arr])
        /\ UNCHANGED <<calls, _dmd_operator_kwargs>>

\* reconstructed_data that moves dmd_time to the horizon of the control
\* sequence it was given
reconstructed_data_retiming(control_input) ==
    \E r \in {reconstructed_data_body(Self, control_input)} :
        /\ ret' = RetOfReconstruct(control_input, r)
        /\ Store(IF control_input = None \/ dmd_time = None THEN Self
                 ELSE [Self EXCEPT !.dmd_time = Some(
                           [t0 |-> 0,
                            tend |-> NCols(col_major_2darray(Get(control_input)).arr),
                            dt |-> 1])])
        /\ UNCHANGED <<calls, _dmd_operator_kwargs>>

\* reconstructed_data that propagates in place, on the view of the first
\* snapshot: the stored first column ends as the last state
reconstructed_data_in_place(control_input) ==
    \E r \in {reconstructed_data_body(Self, control_input)} :
        /\ ret' = RetOfReconstruct(control_input, r)
        /\ Store(IF r.status # "ok" THEN Self
                 ELSE [Self EXCEPT !._snapshots =
                           Mat(NRows(_snapshots), NCols(_snapshots),
                               LAMBDA i, j : IF j = 1
                                             THEN r.value[i][NCols(r.value)]
                                             ELSE _snapshots[i][j])])
        /\ UNCHANGED <<calls, _dmd_operator_kwargs>>

\* reconstructed_data(control_input)
reconstructed_data(control_input) ==
    \E r \in {reconstructed_data_body(Self, control_input)} :
        /\ ret' = RetOfReconstruct(control_input, r)
        /\ UNCHANGED <<fields, calls, _dmd_operator_kwargs>>

\* the property B
B_getter ==
    /\ ret' = [NoRet EXCEPT !.op = "B", !.value = _B]
    /\ UNCHANGED <<fields, calls, _dmd_operator_kwargs>>

\* the property basis
basis_getter ==
    /\ ret' = [NoRet EXCEPT !.op = "basis", !.value = _basis]
    /\ UNCHANGED <<fields, calls, _dmd_operator_kwargs>>

Next ==
    \/ \E X \in SnapshotInputs, I \in ControlInputs, B \in BInputs : fit(X, I, B)
    \/ \E control_input \in {None} \cup { Some(I) : I \in AlternateInputs } :
          reconstructed_data(control_input)
    \/ B_getter
    \/ basis_getter

Spec == Init /\ [][Next]_vars

\* ------------------------------------------------------------- properties
\* the latest fit succeeded: the operator object is fitted and the amplitudes
\* are set
Fitted == _Atilde # None /\ OperatorFitted(Get(_Atilde)) /\ _b # None

\* the columns of a modes matrix are orthonormal or zero, the case in which
\* Pinv is exact
PinvExact ==
    Fitted =>
        LET M == Get(_Atilde).modes
            G == Dot(Transpose(M), M)
        IN  \A i \in 1..NRows(G), j \in 1..NCols(G) :
                G[i][j] = (IF i = j /\ G[i][i] # 0 THEN 1 ELSE 0)

IsReconstruct(r) == r.op = "reconstructed_data"

\* C1: on a fitted model, reconstructed_data(control_input) with a control
\* sequence whose column count is not (fitted dynamics columns - 1) raises the
\* reconstruction-size error (RuntimeError), returns no trajectory, runs no
\* propagation step and leaves every attribute of the object as it was.
C1_WrongSizeRaisesAndDoesNothing ==
    [][(/\ Fitted
        /\ IsReconstruct(ret')
        /\ ret'.control_input # None
        /\ NCols(col_major_2darray(Get(ret'.control_input)).arr)
             # NCols(_snapshots) - 1)
       => (/\ ret'.status = "RuntimeError"
           /\ ret'.value = None
           /\ ret'.steps = 0
           /\ UNCHANGED <<fields, calls>>)]_vars

C1_Witness ==
    /\ Fitted
    /\ IsReconstruct(ret)
    /\ ret.control_input # None
    /\ NCols(col_major_2darray(Get(ret.control_input)).arr) # NCols(_snapshots) - 1
    /\ ret.status = "RuntimeError"

FieldKept(old, new) == new = old \/ new = None

\* C2 (as claimed): a fit that fails leaves the model unset: no attribute
\* holds a value written by the failed call.
C2_FailedFitLeavesModelUnset ==
    [][(ret'.op = "fit" /\ ret'.status # "ok")
       => (/\ FieldKept(_snapshots, _snapshots')
           /\ FieldKept(_controlin, _controlin')
           /\ FieldKept(original_time, original_time')
           /\ FieldKept(dmd_time, dmd_time')
           /\ FieldKept(_Atilde, _Atilde')
           /\ FieldKept(_basis, _basis')
           /\ FieldKept(_B, _B')
           /\ FieldKept(_b, _b'))]_vars

\* C2 (amended): a fit that fails inside a builder keeps basis, B and the
\* amplitudes as they were before the call, while the stored snapshots, the
\* stored control sequence and both time descriptors hold the failed call's
\* values and the operator object is a new, unfitted one.
C2_FailedFitKeepsOnlyBasisBAmplitudes ==
    [][(ret'.op = "fit" /\ ret'.status # "ok")
       => (/\ UNCHANGED <<_basis, _B, _b>>
           /\ Len(calls') = 1 /\ calls'[1].raised
           /\ _snapshots' # None
           /\ calls'[1].X = ColSlice(_snapshots', 1, NCols(_snapshots') - 1)
           /\ calls'[1].controlin = _controlin'
           /\ original_time' = Some(time_descriptor(NCols(_snapshots')))
           /\ dmd_time' = original_time'
           /\ _Atilde' # None
           /\ Get(_Atilde').kind = calls'[1].builder
           /\ ~OperatorFitted(Get(_Atilde')))]_vars

\* a re-fit has failed: basis, B and amplitudes are the earlier fit's
C2_Witness ==
    /\ ret.op = "fit" /\ ret.status = "ValueError"
    /\ _basis # None /\ _B # None /\ _b # None
    /\ NRows(_basis) # NRows(_snapshots)

\* C3: reconstructed_data assigns no attribute of the object, whether it
\* returns or raises, with or without an alternate control sequence; with no
\* argument it uses the control sequence that fit stored (the one the builder
\* of the latest fit was given).
C3_ReconstructReadsOnly ==
    [][IsReconstruct(ret')
       => (/\ UNCHANGED <<fields, calls>>
           /\ (ret'.control_input = None /\ ret'.controlin # None)
                => (Len(calls) = 1 /\ ret'.controlin = calls[1].controlin))]_vars

\* an alternate control sequence that differs from the stored one was used
C3_Witness ==
    /\ IsReconstruct(ret) /\ ret.status = "ok"
    /\ ret.control_input # None
    /\ ret.controlin # _controlin
    /\ NCols(ret.controlin) = NCols(_controlin)

fitted_quantities == <<_basis, _B, _b, _Atilde, original_time, dmd_time>>

\* C4 (as claimed): once a fit has succeeded no operation changes the fitted
\* quantities.
C4_ImmutableAfterFit ==
    [][Fitted => UNCHANGED fitted_quantities]_vars

\* C4 (amended): the fitted quantities are written by fit alone:
\* reconstructed_data and the accessors never change them, and a later call of
\* fit does.
C4_OnlyFitWrites ==
    [][(fitted_quantities' # fitted_quantities) => ret'.op = "fit"]_vars

C4_Witness ==
    /\ Fitted
    /\ ret.op \in {"B", "basis", "reconstructed_data"}
    /\ ret.value # None

\* C5: a reconstruction that returns has k + 1 columns, k the number of
\* control columns; its first column is the first column of the fitted
\* snapshot matrix, and column i + 1 is A_full . column i + B . control
\* column i (the sum is numpy's, which broadcasts).
C5_Recurrence ==
    (IsReconstruct(ret) /\ ret.status = "ok")
    => LET D == ret.value
           k == NCols(ret.controlin)
       IN  /\ NCols(D) = k + 1
           /\ ret.steps = k
           /\ Column(D, 1) = Column(_snapshots, 1)
           /\ \A i \in 1..k :
                Column(D, i + 1)
                  = VecAdd(DotVec(ret.A, Column(D, i)),
                           DotVec(_B, Column(ret.controlin, i)))

\* two propagation steps, in which both the state and the control count
C5_Witness ==
    /\ IsReconstruct(ret) /\ ret.status = "ok"
    /\ NCols(ret.controlin) >= 2
    /\ Column(ret.value, 3) # Column(ret.value, 2)
    /\ Column(ret.value, 2) # DotVec(ret.A, Column(ret.value, 1))
    /\ Column(ret.value, 3) # DotVec(_B, Column(ret.controlin, 2))

\* C6: two calls of reconstructed_data() with no argument, one after the
\* other, have the same outcome.
C6_DefaultReconstructionRepeats ==
    [][(/\ IsReconstruct(ret) /\ ret.control_input = None
        /\ IsReconstruct(ret') /\ ret'.control_input = None)
       => ret' = ret]_vars

C6_Witness ==
    /\ IsReconstruct(ret) /\ ret.control_input = None /\ ret.status = "ok"
    /\ ret.value # None

\* C7: a fit that succeeds has run exactly one builder, the unknown-B one if
\* and only if no B was given, on (X_prev, Y_next, control, n_states) or
\* (X_prev, Y_next, B, control); basis is the basis that builder returned and
\* B is the builder's full B on the unknown-B path, the caller's B on the
\* known-B path.  The accessors return these.
C7_OneBuilderPerFit ==
    Fitted
    => /\ Len(calls) = 1
       /\ LET c == calls[1]
              m == NCols(_snapshots)
          IN  /\ ~c.raised
              /\ c.builder \in {"BUnknown", "BKnown"}
              /\ Get(_Atilde).kind = c.builder
              /\ c.X = ColSlice(_snapshots, 1, m - 1)
              /\ c.Y = ColSlice(_snapshots, 2, m)
              /\ c.controlin = _controlin
              /\ _basis = c.basis
              /\ c.builder = "BUnknown"
                   => (/\ c.B = None
                       /\ c.snapshots_rows = NRows(_snapshots)
                       /\ c.B_full # None
                       /\ _B = c.B_full)
              /\ c.builder = "BKnown" => (c.B # None /\ _B = c.B)
              /\ ret.op = "B" => ret.value = _B
              /\ ret.op = "basis" => ret.value = _basis

C7_Witness ==
    /\ Fitted
    /\ calls[1].builder = "BKnown"
    /\ ret.op = "B"
    /\ ret.value = calls[1].B

\* C8 (as claimed): a fit succeeds only if the control sequence has one
\* column per transition and B maps the controls to the states.
C8_InconsistentShapesFail ==
    (ret.op = "fit" /\ ret.status = "ok")
    => /\ NCols(_controlin) = NCols(_snapshots) - 1
       /\ NRows(_B) = NRows(_snapshots)
       /\ NCols(_B) = NRows(_controlin)

\* C9: on a fitted model both time descriptors are {0, n_samples - 1, 1} for
\* the snapshots of the latest fit, and a reconstruction raises the
\* eigenvalues to the power 1: the scaled eigenvalues are the eigenvalues.
C9_TimeDescriptorsFixed ==
    Fitted
    => /\ original_time = Some([t0 |-> 0, tend |-> NCols(_snapshots) - 1, dt |-> 1])
       /\ dmd_time = original_time
       /\ (IsReconstruct(ret) /\ ret.eigs # None)
            => (ret.exponent = 1 /\ ret.eigs = Get(_Atilde).eigenvalues)

C9_Witness ==
    /\ Fitted
    /\ IsReconstruct(ret) /\ ret.status = "ok"
    /\ NCols(_snapshots) = MaxSamples
    /\ \E i \in 1..Len(ret.eigs) : ret.eigs[i] \notin {-1, 0, 1}

\* C10 (as claimed): on a fitted model reconstructed_data() with no argument
\* does not raise the reconstruction-size error, and what it returns has as
\* many columns as the fitted snapshot matrix.
C10_DefaultReconstructionFits ==
    (Fitted /\ IsReconstruct(ret) /\ ret.control_input = None)
    => /\ ret.status # "RuntimeError"
       /\ ret.status = "ok" => NCols(ret.value) = NCols(_snapshots)
=============================================================================
